---- MODULE Spec2Model ----
(***************************************************************************)
(* Model of the per-client admission controller (RateLimit), the           *)
(* resource-releasing sequence (RateLimitGenerator) and the recycle-safe   *)
(* context slot (RecyclableContextVar).                                    *)
(*                                                                         *)
(*   Spec      RateLimit, one limiter per process, every handler atomic    *)
(*   SpecConc  RateLimit, enter split at its store round trips             *)
(*   SpecGen   RateLimitGenerator driven by a consumer                     *)
(*   SpecCtx   RecyclableContextVar slots of one execution context         *)
(*   SpecFrame Spec with the state each call started from                  *)
(*   SpecOverride  two processes, the operator's write and the next flush  *)
(*   SpecNew   RateLimit.__new__ run by the threads of one process         *)
(***************************************************************************)
EXTENDS Integers, Sequences, FiniteSets, TLC

VARIABLES
    now,          \* time.time(), in seconds
    redis,        \* the shared store: the two keys of one client_id
    limiter,      \* per process: the RateLimit instance of _instance_dict
    uuids,        \* number of uuid4 request keys generated so far
    lastCall,     \* the most recent completed call and what it returned
    streak,       \* SpecStreak: successful enter calls since the last exit call
    freed,        \* SpecStreak: set by an exit that follows a full streak
    pc,           \* SpecConc: position of each process inside enter
    rid,          \* SpecConc: request_id of the enter in progress
    cnt,          \* SpecConc: active_requests_count read by hlen
    interleaved,  \* SpecConc: an enter overlapped another enter or exit
    limitChanged, \* SpecConc: the central limit record was overwritten with another value
    generator,    \* SpecGen: the wrapped sequence
    wrapper,      \* SpecGen: the RateLimitGenerator returned by generate
    consumer,     \* SpecGen: what the consumer has received so far
    released,     \* SpecGen: the calls made to rate_limit.exit and generator.close
    thread_recycles, \* SpecCtx: the class-level ContextVar _thread_recycles
    slots,        \* SpecCtx: per slot, its _updates counter and its _context_var
    ctxCall,      \* SpecCtx: the most recent call on a slot and its outcome
    since,        \* SpecCtx: per slot, whether a set followed the last increment
    prev,         \* SpecFrame: the limiter, the store and the clock when the last call began
    override,     \* SpecOverride: the operator's last write and the flush_cache that followed it
    ctor          \* SpecNew: _instance_dict and the threads inside RateLimit.__new__

rlVars == <<now, redis, limiter, uuids, lastCall>>
streakVars == <<streak, freed>>
concVars == <<pc, rid, cnt, interleaved, limitChanged>>
genVars == <<generator, wrapper, consumer, released>>
ctxVars == <<thread_recycles, slots, ctxCall, since>>
frameVars == <<prev, override>>
newVars == <<ctor>>
vars == <<rlVars, streakVars, concVars, genVars, ctxVars, frameVars, newVars>>

----------------------------------------------------------------------------
(* Bounds of the exploration *)

MaxLimit == 2     \* limits range over 0..MaxLimit
MaxTicks == 3     \* the clock advances at most this many times
MaxUuid == 1      \* gen_request_key is called at most this many times
MaxReqId == 2     \* callers supply request ids 1..MaxReqId
MaxItems == 3     \* a wrapped sequence yields at most this many values
MaxLate == 2      \* calls made on a wrapper after it was closed
MaxRecycles == 3  \* largest value of the thread-recycle counter
MaxCalls == 2     \* constructions each thread makes

Procs == {"p1", "p2"}
Limits == 0..MaxLimit

----------------------------------------------------------------------------
(* Program constants *)

UNLIMITED_REQUEST_ID == 0
REQUEST_MAX_ALIVE_TIME == 10 * 60
ACTIVE_REQUESTS_COUNT_FLUSH_INTERVAL == 5 * 60
DAY == 24 * 60 * 60

NoId == 0 - 1                       \* request_id = None
SuppliedIds == 1..MaxReqId          \* the reserved sentinel is never supplied
TickStep == ACTIVE_REQUESTS_COUNT_FLUSH_INTERVAL
MaxNow == MaxTicks * TickStep

----------------------------------------------------------------------------
(* str() / int() / float() of the values kept in the store *)

Digits == <<"0", "1", "2", "3", "4", "5", "6", "7", "8", "9">>

RECURSIVE PyStr(_)
PyStr(n) ==
    IF n < 0 THEN <<"-">> \o PyStr(0 - n)
    ELSE IF n < 10 THEN <<Digits[n + 1]>>
    ELSE PyStr(n \div 10) \o <<Digits[(n % 10) + 1]>>

DigitVal(c) == (CHOOSE i \in 1..10 : Digits[i] = c) - 1

RECURSIVE PyInt(_)
PyInt(s) ==
    IF Head(s) = "-" THEN 0 - PyInt(Tail(s))
    ELSE IF Len(s) = 1 THEN DigitVal(s[1])
    ELSE 10 * PyInt(SubSeq(s, 1, Len(s) - 1)) + DigitVal(s[Len(s)])

----------------------------------------------------------------------------
(* The store commands used by RateLimit *)

Exists(v) == v # <<>>
HExists(h) == DOMAIN h # {}
HLen(h) == Cardinality(DOMAIN h)
HSetField(h, k, v) == [x \in DOMAIN h \cup {k} |-> IF x = k THEN v ELSE h[x]]
HDelFieldsAll(h, ks) == [x \in {} |-> h[x]]

HDelFields(h, ks) == [x \in DOMAIN h \ ks |-> h[x]]

EmptyHash == [x \in {} |-> <<>>]
EmptyStore == [max |-> <<>>, maxTTL |-> 0, active |-> EmptyHash, activeTTL |-> 0]

\* hset on the active-requests key: a key created by hset carries no expiry
StoreHSet(st, k, v) == [st EXCEPT !.active = HSetField(@, k, v)]

\* hdel on the active-requests key: a hash left empty is removed with its expiry
StoreHDel(st, ks) ==
    LET h == HDelFields(st.active, ks)
    IN [st EXCEPT !.active = h, !.activeTTL = IF HExists(h) THEN @ ELSE 0]

----------------------------------------------------------------------------
(* RateLimit *)

NoLimiter == [exists |-> FALSE, initialized |-> FALSE, max |-> 0, last |-> 0]

DisabledBelowZero(max_active_requests) == max_active_requests < 0

Disabled(max_active_requests) == max_active_requests <= 0

TimedOutAtThreshold(t, v) == t - PyInt(v) >= REQUEST_MAX_ALIVE_TIME

TimedOut(t, v) == t - PyInt(v) > REQUEST_MAX_ALIVE_TIME

FlushDueAfterMaxAlive(t, last_recalculate_time) ==
    t - last_recalculate_time > REQUEST_MAX_ALIVE_TIME

FlushDue(t, last_recalculate_time) ==
    t - last_recalculate_time > ACTIVE_REQUESTS_COUNT_FLUSH_INTERVAL

QuotaExceededOffByOne(active_requests_count, max_active_requests) ==
    active_requests_count > max_active_requests

QuotaExceeded(active_requests_count, max_active_requests) ==
    active_requests_count >= max_active_requests

GenRequestKey(n) == MaxReqId + 1 + n

FlushCacheNeverAdopts(l, st, t, use_local_value) ==
    IF Disabled(l.max) THEN [lim |-> l, st |-> st, ops |-> 0]
    ELSE
      LET writeLocal == TRUE
          l1 == [l EXCEPT !.last = t,
                          !.max = IF writeLocal THEN @ ELSE PyInt(st.max)]
          st1 == [st EXCEPT !.max = IF writeLocal THEN PyStr(l.max) ELSE @,
                            !.maxTTL = t + DAY]
          ops1 == IF use_local_value THEN 1 ELSE IF writeLocal THEN 2 ELSE 3
      IN IF ~HExists(st1.active) THEN [lim |-> l1, st |-> st1, ops |-> ops1 + 1]
         ELSE
           LET request_details == st1.active
               st2 == [st1 EXCEPT !.activeTTL = t + DAY]
               timeout_requests ==
                   {k \in DOMAIN request_details : TimedOut(t, request_details[k])}
           IN IF timeout_requests # {}
              THEN [lim |-> l1, st |-> StoreHDel(st2, timeout_requests),
                    ops |-> ops1 + 4]
              ELSE [lim |-> l1, st |-> st2, ops |-> ops1 + 3]

\* flush_cache on limiter record l against store st at time t:
\* the limiter after, the store after, the number of store commands issued
FlushCache(l, st, t, use_local_value) ==
    IF Disabled(l.max) THEN [lim |-> l, st |-> st, ops |-> 0]
    ELSE
      LET writeLocal == use_local_value \/ ~Exists(st.max)
          l1 == [l EXCEPT !.last = t,
                          !.max = IF writeLocal THEN @ ELSE PyInt(st.max)]
          st1 == [st EXCEPT !.max = IF writeLocal THEN PyStr(l.max) ELSE @,
                            !.maxTTL = t + DAY]
          ops1 == IF use_local_value THEN 1 ELSE IF writeLocal THEN 2 ELSE 3
      IN IF ~HExists(st1.active) THEN [lim |-> l1, st |-> st1, ops |-> ops1 + 1]
         ELSE
           LET request_details == st1.active
               st2 == [st1 EXCEPT !.activeTTL = t + DAY]
               timeout_requests ==
                   {k \in DOMAIN request_details : TimedOut(t, request_details[k])}
           IN IF timeout_requests # {}
              THEN [lim |-> l1, st |-> StoreHDel(st2, timeout_requests),
                    ops |-> ops1 + 4]
              ELSE [lim |-> l1, st |-> st2, ops |-> ops1 + 3]

\* the head of enter, up to the choice of request_id
EnterFlush(l, st, t) ==
    IF FlushDue(t, l.last) THEN FlushCache(l, st, t, FALSE)
    ELSE [lim |-> l, st |-> st, ops |-> 0]

NoCall == [op |-> "none", p |-> "p1", arg |-> NoId, res |-> "none",
           ticket |-> NoId, dis |-> FALSE, contacted |-> FALSE]

ConstructAlwaysInit(p, M) ==
    LET l0 == [limiter[p] EXCEPT !.exists = TRUE, !.max = M]
        call == [NoCall EXCEPT !.op = "init", !.p = p, !.arg = M, !.res = "ok",
                               !.dis = Disabled(M)]
    IN /\ IF Disabled(M)
          THEN /\ limiter' = [limiter EXCEPT ![p] = l0]
               /\ lastCall' = call
               /\ UNCHANGED redis
          ELSE LET f == FlushCache([l0 EXCEPT !.initialized = TRUE], redis, now, TRUE)
               IN /\ limiter' = [limiter EXCEPT ![p] = f.lim]
                  /\ redis' = f.st
                  /\ lastCall' = [call EXCEPT !.contacted = f.ops > 0]
       /\ UNCHANGED <<now, uuids>>

\* __new__ and __init__: RateLimit(client_id, M) in process p
Construct(p, M) ==
    LET l0 == [limiter[p] EXCEPT !.exists = TRUE, !.max = M]
        call == [NoCall EXCEPT !.op = "init", !.p = p, !.arg = M, !.res = "ok",
                               !.dis = Disabled(M)]
    IN /\ IF Disabled(M) \/ l0.initialized
          THEN /\ limiter' = [limiter EXCEPT ![p] = l0]
               /\ lastCall' = call
               /\ UNCHANGED redis
          ELSE LET f == FlushCache([l0 EXCEPT !.initialized = TRUE], redis, now, TRUE)
               IN /\ limiter' = [limiter EXCEPT ![p] = f.lim]
                  /\ redis' = f.st
                  /\ lastCall' = [call EXCEPT !.contacted = f.ops > 0]
       /\ UNCHANGED <<now, uuids>>

\* flush_cache(use_local_value) called on the limiter of process p
Flush(p, use_local_value) ==
    /\ limiter[p].exists
    /\ LET f == FlushCache(limiter[p], redis, now, use_local_value)
       IN /\ limiter' = [limiter EXCEPT ![p] = f.lim]
          /\ redis' = f.st
          /\ lastCall' = [NoCall EXCEPT !.op = "flush", !.p = p, !.res = "ok",
                                        !.dis = Disabled(limiter[p].max),
                                        !.contacted = f.ops > 0]
    /\ UNCHANGED <<now, uuids>>

\* enter on a disabled limiter: the sentinel, at once
EnterDisabled(p, r) ==
    /\ lastCall' = [NoCall EXCEPT !.op = "enter", !.p = p, !.arg = r, !.res = "ok",
                                  !.ticket = UNLIMITED_REQUEST_ID, !.dis = TRUE]
    /\ UNCHANGED <<now, redis, limiter, uuids>>

\* enter(request_id) on the limiter of process p, run without interruption
Enter(p, r) ==
    /\ limiter[p].exists
    /\ r = NoId => uuids < MaxUuid
    /\ IF Disabled(limiter[p].max) THEN EnterDisabled(p, r)
       ELSE
         LET f == EnterFlush(limiter[p], redis, now)
             request_id == IF r = NoId THEN GenRequestKey(uuids) ELSE r
             active_requests_count == HLen(f.st.active)
             call == [NoCall EXCEPT !.op = "enter", !.p = p, !.arg = r,
                                    !.contacted = TRUE]
         IN /\ limiter' = [limiter EXCEPT ![p] = f.lim]
            /\ uuids' = IF r = NoId THEN uuids + 1 ELSE uuids
            /\ IF QuotaExceeded(active_requests_count, f.lim.max)
               THEN /\ redis' = f.st
                    /\ lastCall' = [call EXCEPT !.res = "QuotaExceeded"]
               ELSE /\ redis' = StoreHSet(f.st, request_id, PyStr(now))
                    /\ lastCall' = [call EXCEPT !.res = "ok", !.ticket = request_id]
            /\ UNCHANGED now

\* the outcome of exit(request_id) on limiter record l against store st;
\* a limiter that was never enabled has no active_requests_key attribute
ExitCall(l, st, request_id) ==
    IF request_id = UNLIMITED_REQUEST_ID THEN [st |-> st, ops |-> 0, res |-> "ok"]
    ELSE IF ~l.initialized
         THEN [st |-> st, ops |-> 0, res |-> "AttributeError"]
         ELSE [st |-> StoreHDel(st, {request_id}), ops |-> 1, res |-> "ok"]

\* exit(request_id) on the limiter of process p
Exit(p, request_id) ==
    /\ limiter[p].exists
    /\ LET e == ExitCall(limiter[p], redis, request_id)
       IN /\ redis' = e.st
          /\ lastCall' = [NoCall EXCEPT !.op = "exit", !.p = p, !.arg = request_id,
                                        !.res = e.res, !.contacted = e.ops > 0,
                                        !.dis = Disabled(limiter[p].max)]
    /\ UNCHANGED <<now, limiter, uuids>>

\* an operator overwrites the central max_active_requests record
OperatorSet(V) ==
    /\ Exists(redis.max)
    /\ redis' = [redis EXCEPT !.max = PyStr(V), !.maxTTL = 0]
    /\ lastCall' = [NoCall EXCEPT !.op = "operator", !.arg = V, !.res = "ok",
                                  !.contacted = TRUE]
    /\ UNCHANGED <<now, limiter, uuids>>

\* time passes
Tick ==
    /\ now < MaxNow
    /\ now' = now + TickStep
    /\ UNCHANGED <<redis, limiter, uuids, lastCall>>

AllIds == 0..(MaxReqId + MaxUuid)
SeqProcs == {"p1"}

InitRL ==
    /\ now = 0
    /\ redis = EmptyStore
    /\ limiter = [p \in Procs |-> NoLimiter]
    /\ uuids = 0
    /\ lastCall = NoCall

InitStreak ==
    /\ streak = [n |-> 0, limit |-> 0, ids |-> {}]
    /\ freed = [full |-> 0, gone |-> 0, used |-> FALSE]

InitConc ==
    /\ pc = [p \in Procs |-> "idle"]
    /\ rid = [p \in Procs |-> NoId]
    /\ cnt = [p \in Procs |-> 0]
    /\ interleaved = FALSE
    /\ limitChanged = FALSE

NoGenerator == [kind |-> "none", items |-> <<>>, pos |-> 0, state |-> "none"]
NoWrapper == [exists |-> FALSE, closed |-> FALSE, request_id |-> NoId]
NoResult == [op |-> "none", kind |-> "none", val |-> "none", inner |-> "none"]
NoConsumer == [state |-> "none", delivered |-> <<>>, result |-> NoResult, late |-> 0]
NoReleased == [exitCalls |-> 0, closeCalls |-> 0, terminal |-> "none", exitAt |-> 0]

InitGen ==
    /\ generator = NoGenerator
    /\ wrapper = NoWrapper
    /\ consumer = NoConsumer
    /\ released = NoReleased

Slots == {"s1", "s2"}
CtxValues == {"x", "y"}
Unset == [isSet |-> FALSE, val |-> "none"]
NoCtxCall == [op |-> "none", slot |-> "s1", default |-> FALSE, out |-> "none",
              val |-> "none"]

\* a fresh execution context: no ContextVar has been set in it
InitCtx ==
    /\ thread_recycles = [isSet |-> FALSE, val |-> 0]
    /\ slots = [s \in Slots |-> [updates |-> 0, cell |-> Unset]]
    /\ ctxCall = NoCtxCall
    /\ since = [s \in Slots |-> "none"]

NoPrev == [lim |-> NoLimiter, redis |-> EmptyStore, now |-> 0, local |-> FALSE]

NoOverride == [state |-> "none", val |-> 0, kind |-> "none", by |-> "p1",
               was |-> 0, adopted |-> FALSE]

InitFrame == prev = NoPrev /\ override = NoOverride

Threads == {"t1", "t2", "t3"}
NoThread == [pc |-> "idle", instance |-> 0, ret |-> 0, calls |-> 0]

\* _instance_dict = {}: no instance for the client_id (0 = absent)
InitNew == ctor = [dict |-> 0, made |-> 0, th |-> [t \in Threads |-> NoThread]]

Init == InitRL /\ InitStreak /\ InitConc /\ InitGen /\ InitCtx /\ InitFrame /\ InitNew

Next ==
    \/ \E p \in SeqProcs, M \in Limits :
          Construct(p, M) /\ UNCHANGED <<streakVars, concVars, genVars, ctxVars, frameVars, newVars>>
    \/ \E p \in SeqProcs, b \in BOOLEAN :
          Flush(p, b) /\ UNCHANGED <<streakVars, concVars, genVars, ctxVars, frameVars, newVars>>
    \/ \E p \in SeqProcs, r \in SuppliedIds \cup {NoId} :
          Enter(p, r) /\ UNCHANGED <<streakVars, concVars, genVars, ctxVars, frameVars, newVars>>
    \/ \E p \in SeqProcs, r \in AllIds :
          Exit(p, r) /\ UNCHANGED <<streakVars, concVars, genVars, ctxVars, frameVars, newVars>>
    \/ \E V \in Limits : OperatorSet(V) /\ UNCHANGED <<streakVars, concVars, genVars, ctxVars, frameVars, newVars>>
    \/ Tick /\ UNCHANGED <<streakVars, concVars, genVars, ctxVars, frameVars, newVars>>

Spec == Init /\ [][Next]_vars

\* C10 as stated: on a disabled limiter (max_active_requests <= 0) exit never
\* contacts the shared store, whatever request_id it is given.
C10_AsStated == (lastCall.op = "exit" /\ lastCall.dis) => ~lastCall.contacted

----------------------------------------------------------------------------
(* SpecStreak: Spec with a record of the run of successful enter calls      *)
(* made since the last exit call, all under one limit                       *)

NoStreak == [n |-> 0, limit |-> 0, ids |-> {}]
NoFreed == [full |-> 0, gone |-> 0, used |-> FALSE]

\* the tickets of the run that the hash holds when enter reads its length
LiveAtCount(p) == streak.ids \cap DOMAIN EnterFlush(limiter[p], redis, now).st.active

ObserveEnter(p) ==
    LET m == limiter'[p].max
        ok == lastCall'.res = "ok" /\ ~lastCall'.dis
    IN /\ streak' =
            IF ok
            THEN IF streak.n > 0 /\ streak.limit = m
                 THEN [streak EXCEPT !.n = IF @ > MaxLimit THEN @ ELSE @ + 1,
                                     !.ids = @ \cup {lastCall'.ticket}]
                 ELSE [n |-> 1, limit |-> m, ids |-> {lastCall'.ticket}]
            ELSE streak
       /\ freed' = IF freed.full > 0 /\ ~freed.used
                   THEN [freed EXCEPT !.used = TRUE] ELSE NoFreed

ObserveExit(p, request_id) ==
    LET full == IF streak.n > 0 /\ streak.n = streak.limit
                   /\ streak.limit = limiter[p].max /\ request_id \in streak.ids
                THEN streak.limit ELSE 0
        gone == IF request_id \in DOMAIN redis.active
                   /\ request_id \notin DOMAIN redis'.active
                THEN full ELSE 0
    IN /\ freed' = [full |-> full, gone |-> gone, used |-> FALSE]
       /\ streak' = NoStreak

NextStreak ==
    \/ \E p \in SeqProcs, M \in Limits :
          Construct(p, M) /\ UNCHANGED <<streakVars, concVars, genVars, ctxVars, frameVars, newVars>>
    \/ \E p \in SeqProcs, b \in BOOLEAN :
          Flush(p, b) /\ UNCHANGED <<streakVars, concVars, genVars, ctxVars, frameVars, newVars>>
    \/ \E p \in SeqProcs, r \in SuppliedIds \cup {NoId} :
          Enter(p, r) /\ ObserveEnter(p) /\ UNCHANGED <<concVars, genVars, ctxVars, frameVars, newVars>>
    \/ \E p \in SeqProcs, r \in AllIds :
          Exit(p, r) /\ ObserveExit(p, r) /\ UNCHANGED <<concVars, genVars, ctxVars, frameVars, newVars>>
    \/ \E V \in Limits : OperatorSet(V) /\ UNCHANGED <<streakVars, concVars, genVars, ctxVars, frameVars, newVars>>
    \/ Tick /\ UNCHANGED <<streakVars, concVars, genVars, ctxVars, frameVars, newVars>>

SpecStreak == Init /\ [][NextStreak]_vars

EnterArgs == SuppliedIds \cup {NoId}

\* a run of N successful enter calls under limit N = the limit enforced now
FullRun(p) ==
    /\ streak.n > 0
    /\ streak.n = streak.limit
    /\ streak.limit = limiter'[p].max

\* C1 as stated: on a limiter with limit N > 0, after N successful enter calls
\* with no intervening exit the next enter raises the quota error, and after
\* one exit of a ticket the next enter succeeds.
C1_AsStated ==
    [][\A p \in SeqProcs, r \in EnterArgs :
          (Enter(p, r) /\ ~Disabled(limiter[p].max)) =>
              /\ FullRun(p) => lastCall'.res = "QuotaExceeded"
              /\ (freed.full > 0 /\ ~freed.used /\ freed.full = limiter'[p].max)
                     => lastCall'.res = "ok"]_vars

\* C1 amended: on a limiter whose limit stays N > 0, after N successful enter
\* calls with no intervening exit that registered N distinct request ids, all
\* still in the hash when the next enter reads its length, that enter raises
\* the quota error; after an exit that removes one of those tickets from the
\* hash, the next enter succeeds.
C1_FullThenFreed ==
    [][\A p \in SeqProcs, r \in EnterArgs :
          (Enter(p, r) /\ ~Disabled(limiter[p].max)) =>
              /\ (FullRun(p) /\ Cardinality(LiveAtCount(p)) = streak.limit)
                     => lastCall'.res = "QuotaExceeded"
              /\ (freed.gone > 0 /\ ~freed.used /\ freed.gone = limiter'[p].max)
                     => lastCall'.res = "ok"]_vars

\* an enter admitted right after an exit removed one ticket of a full run of 2
C1_Witness ==
    /\ lastCall.op = "enter"
    /\ lastCall.res = "ok"
    /\ freed.used
    /\ freed.gone = 2

\* an enter refused after a full run of 2 distinct tickets, both still held
C1_WitnessRefused ==
    /\ lastCall.op = "enter"
    /\ lastCall.res = "QuotaExceeded"
    /\ streak.n = 2
    /\ streak.limit = 2
    /\ limiter["p1"].max = 2
    /\ Cardinality(streak.ids \cap DOMAIN redis.active) = 2

----------------------------------------------------------------------------
(* SpecConc: one limiter in each of two processes, sharing the store; enter *)
(* is split at its store round trips: flush, hlen, hset                     *)

Busy(p) == \E q \in Procs \ {p} : pc[q] # "idle"

\* enter up to the choice of request_id (lines 71-76)
EnterBegin(p, r) ==
    /\ pc[p] = "idle"
    /\ r = NoId => uuids < MaxUuid
    /\ IF Disabled(limiter[p].max)
       THEN UNCHANGED <<redis, limiter, uuids, pc, rid>>
       ELSE LET f == EnterFlush(limiter[p], redis, now)
            IN /\ limiter' = [limiter EXCEPT ![p] = f.lim]
               /\ redis' = f.st
               /\ uuids' = IF r = NoId THEN uuids + 1 ELSE uuids
               /\ rid' = [rid EXCEPT ![p] = IF r = NoId THEN GenRequestKey(uuids) ELSE r]
               /\ pc' = [pc EXCEPT ![p] = "hlen"]
    /\ interleaved' = (interleaved \/ Busy(p))
    /\ UNCHANGED <<now, lastCall, cnt, limitChanged>>

\* the count read and the check on it (lines 78-83)
EnterCount(p) ==
    /\ pc[p] = "hlen"
    /\ LET active_requests_count == HLen(redis.active)
       IN IF QuotaExceeded(active_requests_count, limiter[p].max)
          THEN /\ pc' = [pc EXCEPT ![p] = "idle"]
               /\ rid' = [rid EXCEPT ![p] = NoId]
               /\ UNCHANGED cnt
          ELSE /\ cnt' = [cnt EXCEPT ![p] = active_requests_count]
               /\ pc' = [pc EXCEPT ![p] = "hset"]
               /\ UNCHANGED rid
    /\ UNCHANGED <<rlVars, interleaved, limitChanged>>

\* the registration (lines 84-85)
EnterRegister(p) ==
    /\ pc[p] = "hset"
    /\ redis' = StoreHSet(redis, rid[p], PyStr(now))
    /\ pc' = [pc EXCEPT ![p] = "idle"]
    /\ rid' = [rid EXCEPT ![p] = NoId]
    /\ cnt' = [cnt EXCEPT ![p] = 0]
    /\ UNCHANGED <<now, limiter, uuids, lastCall, interleaved, limitChanged>>

\* exit, one store command
ExitConc(p, request_id) ==
    /\ pc[p] = "idle"
    /\ redis' = ExitCall(limiter[p], redis, request_id).st
    /\ interleaved' = (interleaved \/ Busy(p))
    /\ UNCHANGED <<now, limiter, uuids, lastCall, pc, rid, cnt, limitChanged>>

OperatorSetConc(V) ==
    /\ redis' = [redis EXCEPT !.max = PyStr(V), !.maxTTL = 0]
    /\ limitChanged' = (limitChanged \/ PyStr(V) # redis.max)
    /\ UNCHANGED <<now, limiter, uuids, lastCall, pc, rid, cnt, interleaved>>

\* RateLimit(client_id, N) has been constructed in both processes at time 0
InitOfConc ==
    /\ \E N \in 1..MaxLimit :
          /\ limiter = [p \in Procs |->
                          [exists |-> TRUE, initialized |-> TRUE, max |-> N, last |-> 0]]
          /\ redis = [EmptyStore EXCEPT !.max = PyStr(N), !.maxTTL = DAY]
    /\ now = 0
    /\ uuids = 0
    /\ lastCall = NoCall
    /\ InitStreak
    /\ pc = [p \in Procs |-> "idle"]
    /\ rid = [p \in Procs |-> NoId]
    /\ cnt = [p \in Procs |-> 0]
    /\ interleaved = FALSE
    /\ limitChanged = FALSE
    /\ InitGen
    /\ InitCtx
    /\ InitFrame
    /\ InitNew

NextConc ==
    \/ \E p \in Procs, r \in EnterArgs : EnterBegin(p, r) /\ UNCHANGED <<streakVars, genVars, ctxVars, frameVars, newVars>>
    \/ \E p \in Procs : EnterCount(p) /\ UNCHANGED <<streakVars, genVars, ctxVars, frameVars, newVars>>
    \/ \E p \in Procs : EnterRegister(p) /\ UNCHANGED <<streakVars, genVars, ctxVars, frameVars, newVars>>
    \/ \E p \in Procs, r \in AllIds : ExitConc(p, r) /\ UNCHANGED <<streakVars, genVars, ctxVars, frameVars, newVars>>
    \/ \E V \in Limits : OperatorSetConc(V) /\ UNCHANGED <<streakVars, genVars, ctxVars, frameVars, newVars>>
    \/ Tick /\ UNCHANGED <<streakVars, concVars, genVars, ctxVars, frameVars, newVars>>

SpecConc == InitOfConc /\ [][NextConc]_vars

\* C2: the count read and the registration are separate steps on the store.
\* A caller about to register holds a count that passed the check when it was
\* read, whatever the hash holds by now; so with K concurrent callers and an
\* unchanged limit N the hash can grow past N (C2_Overshoot is reachable), by
\* at most K - 1 entries.
C2_StaleCountRegisters ==
    /\ \A p \in Procs : pc[p] = "hset" => ~QuotaExceeded(cnt[p], limiter[p].max)
    /\ ~limitChanged =>
          \A p \in Procs :
              HLen(redis.active) <= limiter[p].max + Cardinality(Procs) - 1

\* more tickets in the hash than the limit every limiter enforces
C2_Overshoot ==
    /\ ~limitChanged
    /\ interleaved
    /\ \A p \in Procs : HLen(redis.active) > limiter[p].max

\* C3: while no enter overlaps another enter or exit and the limit stays
\* fixed, the hash never holds more entries than max_active_requests.
C3_NoOvershootSequential ==
    (~interleaved /\ ~limitChanged) =>
        \A p \in Procs : HLen(redis.active) <= limiter[p].max

\* two tickets admitted one after the other fill a limit of 2
C3_Witness ==
    /\ ~interleaved
    /\ ~limitChanged
    /\ \A p \in Procs : pc[p] = "idle" /\ limiter[p].max = 2
    /\ HLen(redis.active) = 2

----------------------------------------------------------------------------
(* SpecGen: RateLimit.generate and the RateLimitGenerator it returns, driven *)
(* by a consumer that iterates, closes, or walks away                        *)

Values == {"a", "b"}
WrappedSequences == UNION {[1..n -> Values] : n \in 0..MaxItems}

ShouldReleaseAlways(closed) == TRUE

\* close(): "if not self.closed"
ShouldRelease(closed) == ~closed

\* hasattr(self.generator, "close")
HasClose(g) == g.kind = "generator"

\* rate_limit.exit(self.request_id) as the wrapper calls it; a store that
\* cannot be reached makes the hdel raise
WrapperExit(storeUp) ==
    LET e == ExitCall(limiter["p1"], redis, wrapper.request_id)
    IN IF e.ops > 0 /\ ~storeUp
       THEN [st |-> redis, res |-> "StoreUnavailable"]
       ELSE [st |-> e.st, res |-> e.res]

\* close() with the wrapped sequence in state g: what it leaves behind and
\* the error it raises, if any
Close(g, storeUp, closeOk, why) ==
    IF ~ShouldRelease(wrapper.closed)
    THEN [w |-> wrapper, g |-> g, rel |-> released, st |-> redis, err |-> "none"]
    ELSE
      LET x == WrapperExit(storeUp)
          w1 == [wrapper EXCEPT !.closed = TRUE]
          r1 == [released EXCEPT
                    !.exitCalls = @ + 1,
                    !.exitAt = IF released.exitCalls = 0
                               THEN Len(consumer.delivered) ELSE @,
                    !.terminal = IF @ = "none" THEN why ELSE @]
      IN IF x.res # "ok"
         THEN [w |-> w1, g |-> g, rel |-> r1, st |-> x.st, err |-> x.res]
         ELSE IF HasClose(g)
              THEN [w |-> w1, g |-> [g EXCEPT !.state = "finished"],
                    rel |-> [r1 EXCEPT !.closeCalls = @ + 1], st |-> x.st,
                    err |-> IF g.state = "live" /\ ~closeOk
                            THEN "CloseError" ELSE "none"]
              ELSE [w |-> w1, g |-> g, rel |-> r1, st |-> x.st, err |-> "none"]

\* generate(generator, request_id)
Generate(kind, items) ==
    /\ consumer.state = "none"
    /\ IF kind = "mapping"
       THEN /\ consumer' = [consumer EXCEPT !.state = "mapping"]
            /\ UNCHANGED <<generator, wrapper>>
       ELSE /\ generator' = [kind |-> kind, items |-> items, pos |-> 0,
                             state |-> "live"]
            /\ wrapper' = [wrapper EXCEPT !.exists = TRUE, !.closed = FALSE]
            /\ consumer' = [consumer EXCEPT !.state = "iterating"]
    /\ UNCHANGED <<released, redis>>

Late == IF wrapper.closed THEN consumer.late + 1 ELSE consumer.late

\* __next__() called by the consumer; fail: the wrapped sequence raises
GenNext(storeUp, fail) ==
    /\ wrapper.exists
    /\ consumer.state = "iterating"
    /\ consumer.late < MaxLate
    /\ IF wrapper.closed
       THEN /\ consumer' = [consumer EXCEPT
                              !.late = Late,
                              !.result = [op |-> "next", kind |-> "StopIteration",
                                          val |-> "none", inner |-> "none"]]
            /\ UNCHANGED <<generator, wrapper, released, redis>>
       ELSE IF generator.state = "live" /\ ~fail
               /\ generator.pos < Len(generator.items)
            THEN LET v == generator.items[generator.pos + 1]
                 IN /\ generator' = [generator EXCEPT !.pos = @ + 1]
                    /\ consumer' = [consumer EXCEPT
                                      !.delivered = Append(@, v),
                                      !.result = [op |-> "next", kind |-> "value",
                                                  val |-> v, inner |-> "value"]]
                    /\ UNCHANGED <<wrapper, released, redis>>
            ELSE LET raised == IF generator.state = "live" /\ fail
                               THEN "GenError" ELSE "StopIteration"
                     c == Close([generator EXCEPT !.state = "finished"], storeUp,
                                TRUE, IF raised = "GenError" THEN "error"
                                      ELSE "exhausted")
                 IN /\ generator' = c.g
                    /\ wrapper' = c.w
                    /\ released' = c.rel
                    /\ redis' = c.st
                    /\ consumer' = [consumer EXCEPT
                                      !.result = [op |-> "next",
                                                  kind |-> IF c.err # "none"
                                                           THEN c.err ELSE raised,
                                                  val |-> "none", inner |-> raised]]

\* close() called by the consumer
GenClose(storeUp, closeOk) ==
    /\ wrapper.exists
    /\ consumer.state = "iterating"
    /\ consumer.late < MaxLate
    /\ LET c == Close(generator, storeUp, closeOk, "close")
       IN /\ generator' = c.g
          /\ wrapper' = c.w
          /\ released' = c.rel
          /\ redis' = c.st
          /\ consumer' = [consumer EXCEPT
                            !.late = Late,
                            !.result = [op |-> "close",
                                        kind |-> IF c.err # "none" THEN c.err
                                                 ELSE "ok",
                                        val |-> "none", inner |-> "none"]]

\* the consumer stops iterating and drops the wrapper without calling close;
\* the class defines no finalizer
Abandon ==
    /\ wrapper.exists
    /\ consumer.state = "iterating"
    /\ consumer' = [consumer EXCEPT !.state = "gone"]
    /\ UNCHANGED <<generator, wrapper, released, redis>>

\* a ticket was obtained from enter: request id 1 on a limiter of limit 1, or
\* the sentinel on a disabled limiter
InitOfGen ==
    /\ \/ /\ limiter = [p \in Procs |->
                          IF p = "p1"
                          THEN [exists |-> TRUE, initialized |-> TRUE, max |-> 1,
                                last |-> 0]
                          ELSE NoLimiter]
          /\ redis = [max |-> PyStr(1), maxTTL |-> DAY,
                      active |-> HSetField(EmptyHash, 1, PyStr(0)), activeTTL |-> 0]
          /\ wrapper = [NoWrapper EXCEPT !.request_id = 1]
          /\ lastCall = [NoCall EXCEPT !.op = "enter", !.arg = 1, !.res = "ok",
                                       !.ticket = 1, !.contacted = TRUE]
       \/ /\ limiter = [p \in Procs |->
                          IF p = "p1" THEN [NoLimiter EXCEPT !.exists = TRUE]
                          ELSE NoLimiter]
          /\ redis = EmptyStore
          /\ wrapper = [NoWrapper EXCEPT !.request_id = UNLIMITED_REQUEST_ID]
          /\ lastCall = [NoCall EXCEPT !.op = "enter", !.res = "ok", !.dis = TRUE,
                                       !.ticket = UNLIMITED_REQUEST_ID]
    /\ now = 0
    /\ uuids = 0
    /\ generator = NoGenerator
    /\ consumer = NoConsumer
    /\ released = NoReleased
    /\ InitStreak
    /\ InitConc
    /\ InitCtx
    /\ InitFrame
    /\ InitNew

NextGen ==
    \/ \E kind \in {"generator", "iterator", "mapping"}, items \in WrappedSequences :
          Generate(kind, items)
          /\ UNCHANGED <<now, limiter, uuids, lastCall, streakVars, concVars, ctxVars, frameVars, newVars>>
    \/ \E storeUp \in BOOLEAN, fail \in BOOLEAN :
          GenNext(storeUp, fail)
          /\ UNCHANGED <<now, limiter, uuids, lastCall, streakVars, concVars, ctxVars, frameVars, newVars>>
    \/ \E storeUp \in BOOLEAN, closeOk \in BOOLEAN :
          GenClose(storeUp, closeOk)
          /\ UNCHANGED <<now, limiter, uuids, lastCall, streakVars, concVars, ctxVars, frameVars, newVars>>
    \/ Abandon /\ UNCHANGED <<now, limiter, uuids, lastCall, streakVars, concVars, ctxVars, frameVars, newVars>>

SpecGen == InitOfGen /\ [][NextGen]_vars

Terminated == released.terminal # "none"

\* C4: the first terminal event of a wrapper (exhaustion, an error of the
\* wrapped sequence, an explicit close) makes exactly one call to exit; on
\* exhaustion the call comes after the last element was delivered; whatever
\* next and close calls follow, each next yields exhaustion at once, nothing
\* more is delivered and exit is not called again.
C4_OneExitPerTerminalEvent ==
    /\ released.exitCalls = IF Terminated THEN 1 ELSE 0
    /\ wrapper.closed <=> Terminated
    /\ Terminated => Len(consumer.delivered) = released.exitAt
    /\ released.terminal = "exhausted" => consumer.delivered = generator.items
    /\ (consumer.late > 0 /\ consumer.result.op = "next")
          => consumer.result.kind = "StopIteration"

\* three elements consumed to exhaustion, then two more attempts
C4_Witness ==
    /\ released.terminal = "exhausted"
    /\ Len(consumer.delivered) = 3
    /\ released.exitCalls = 1
    /\ consumer.late = 2
    /\ consumer.result.op = "next"

\* C5 as stated: however consumption of a wrapped sequence ends (completion,
\* error, or the consumer abandoning it), the wrapper has released the ticket,
\* exactly once.
C5_AsStated ==
    (wrapper.exists /\ (Terminated \/ consumer.state = "gone"))
        => released.exitCalls = 1

\* C6 as stated: an error raised by the wrapped sequence during __next__ is
\* the error the caller receives, also when the release call itself fails.
C6_AsStated ==
    consumer.result.inner = "GenError" => consumer.result.kind = "GenError"

\* the wrapper is closed while its ticket is still registered: nothing but the
\* wrapper's own exit removes the ticket here, so its exit call failed
ExitFailed == wrapper.closed /\ wrapper.request_id \in DOMAIN redis.active

\* C21: when exit fails (store unavailable) in close, reached from close() or
\* from __next__, the error reaches the caller with the wrapper already marked
\* closed, the ticket still registered and the wrapped generator's close not
\* called; from then on exit has been called once and is not called again,
\* generator.close is never called, every next yields exhaustion and every
\* close returns quietly, and the ticket stays registered.
C21_ExitFailureLeavesClosed ==
    /\ consumer.result.kind = "StoreUnavailable" =>
          /\ ExitFailed
          /\ consumer.late = 0
    /\ ExitFailed =>
          /\ released.exitCalls = 1
          /\ released.closeCalls = 0
          /\ released.terminal = "close" => generator.state = "live"
          /\ consumer.late > 0 =>
                consumer.result.kind = IF consumer.result.op = "next"
                                       THEN "StopIteration" ELSE "ok"

\* close() of a live generator failed in exit; a later close and a later next
\* found the wrapper closed, and the ticket is still registered
C21_Witness ==
    /\ ExitFailed
    /\ generator.kind = "generator"
    /\ generator.state = "live"
    /\ released.terminal = "close"
    /\ released.exitCalls = 1
    /\ released.closeCalls = 0
    /\ consumer.late = 2
    /\ consumer.result.op = "next"
    /\ consumer.result.kind = "StopIteration"

----------------------------------------------------------------------------
(* SpecCtx: RecyclableContextVar slots of one execution context             *)

\* _thread_recycles.get(0)
ThreadRecycles == IF thread_recycles.isSet THEN thread_recycles.val ELSE 0

\* "if thread_recycles > self_updates: self._updates.set(thread_recycles)"
Normalized(recycles, updates) == IF recycles > updates THEN recycles ELSE updates

VisibleWhenEqual(recycles, updates) == recycles <= updates

\* get: "if thread_recycles < self_updates", on the values read at entry
Visible(recycles, updates) == recycles < updates

ArmedAlways(updates, recycles) == updates + 1

ArmedNever(updates, recycles) == updates

\* set: "if self._updates.get() == self._thread_recycles.get(0)", then + 1
Armed(updates, recycles) == IF updates = recycles THEN updates + 1 ELSE updates

\* increment_thread_recycles()
IncrementThreadRecycles ==
    /\ ThreadRecycles < MaxRecycles
    /\ thread_recycles' = IF thread_recycles.isSet
                          THEN [thread_recycles EXCEPT !.val = @ + 1]
                          ELSE [isSet |-> TRUE, val |-> 0]
    /\ ctxCall' = [NoCtxCall EXCEPT !.op = "increment"]
    /\ since' = [s \in Slots |-> "increment"]
    /\ UNCHANGED slots

\* slot.get(default) / slot.get()
Get(s, hasDefault) ==
    LET recycles == ThreadRecycles
        self_updates == slots[s].updates
    IN /\ slots' = [slots EXCEPT ![s].updates = Normalized(recycles, self_updates)]
       /\ ctxCall' =
            IF Visible(recycles, self_updates)
            THEN IF slots[s].cell.isSet
                 THEN [op |-> "get", slot |-> s, default |-> hasDefault,
                       out |-> "value", val |-> slots[s].cell.val]
                 ELSE [op |-> "get", slot |-> s, default |-> hasDefault,
                       out |-> "LookupError", val |-> "none"]
            ELSE IF hasDefault
                 THEN [op |-> "get", slot |-> s, default |-> TRUE,
                       out |-> "default", val |-> "default"]
                 ELSE [op |-> "get", slot |-> s, default |-> FALSE,
                       out |-> "LookupError", val |-> "none"]
       /\ UNCHANGED <<thread_recycles, since>>

\* slot.set(value)
Set(s, value) ==
    LET recycles == ThreadRecycles
        u == Normalized(recycles, slots[s].updates)
    IN /\ slots' = [slots EXCEPT ![s] = [updates |-> Armed(u, recycles),
                                         cell |-> [isSet |-> TRUE, val |-> value]]]
       /\ ctxCall' = [NoCtxCall EXCEPT !.op = "set", !.slot = s, !.val = value]
       /\ since' = [since EXCEPT ![s] = "set"]
       /\ UNCHANGED thread_recycles

InitOfCtx == InitRL /\ InitStreak /\ InitConc /\ InitGen /\ InitCtx /\ InitFrame /\ InitNew

NextCtx ==
    \/ IncrementThreadRecycles /\ UNCHANGED <<rlVars, streakVars, concVars, genVars, frameVars, newVars>>
    \/ \E s \in Slots, d \in BOOLEAN :
          Get(s, d) /\ UNCHANGED <<rlVars, streakVars, concVars, genVars, frameVars, newVars>>
    \/ \E s \in Slots, v \in CtxValues :
          Set(s, v) /\ UNCHANGED <<rlVars, streakVars, concVars, genVars, frameVars, newVars>>

SpecCtx == InitOfCtx /\ [][NextCtx]_vars

\* C7 as stated: after an increment_thread_recycles not followed by a set on
\* the slot, get() fails with the lookup error and get(default) returns the
\* default, whatever was set before; after a set(y) that follows the
\* increment, get returns y.
C7_AsStated ==
    ctxCall.op = "get" =>
        /\ since[ctxCall.slot] = "increment" =>
              ctxCall.out = IF ctxCall.default THEN "default" ELSE "LookupError"
        /\ since[ctxCall.slot] = "set" =>
              /\ ctxCall.out = "value"
              /\ ctxCall.val = slots[ctxCall.slot].cell.val

\* C8: after set(x), with no increment_thread_recycles since, every get
\* returns the value of the most recent set, with or without a default.
C8_GetReturnsLatestSet ==
    (ctxCall.op = "get" /\ since[ctxCall.slot] = "set") =>
        /\ ctxCall.out = "value"
        /\ ctxCall.val = slots[ctxCall.slot].cell.val

\* get(default) returns the value set in a generation that was advanced to
C8_Witness ==
    /\ ctxCall.op = "get"
    /\ ctxCall.default
    /\ since[ctxCall.slot] = "set"
    /\ ctxCall.out = "value"
    /\ ThreadRecycles = 2

\* C9 as stated: at the end of every operation a slot's update generation
\* does not exceed the current recycle generation.
C9_AsStated == \A s \in Slots : slots[s].updates <= ThreadRecycles

\* C9 amended: at the end of every operation a slot's update generation
\* exceeds the current recycle generation by at most one.
C9_UpdatesAtMostOneAhead == \A s \in Slots : slots[s].updates <= ThreadRecycles + 1

\* a slot armed by set, one ahead of the recycle counter, set twice
C9_Witness ==
    /\ ctxCall.op = "set"
    /\ thread_recycles.isSet
    /\ slots["s1"].updates = ThreadRecycles + 1
    /\ slots["s2"].updates = ThreadRecycles + 1
    /\ ThreadRecycles = 1

\* C19: in every state of an execution context each slot's update counter is
\* at most the recycle counter plus one (an unset recycle counter reads as 0),
\* and a get returns the stored value exactly when the slot's update counter
\* is greater than the recycle counter; otherwise it returns the default, or
\* fails with the lookup error when none was given. A get raises the update
\* counter only up to the recycle counter, so the comparison has the same
\* outcome right after the call as on the values the call read.
C19_CounterAndVisibility ==
    /\ \A s \in Slots : slots[s].updates <= ThreadRecycles + 1
    /\ ctxCall.op = "get" =>
          LET slot == slots[ctxCall.slot]
          IN IF slot.updates > ThreadRecycles
             THEN /\ ctxCall.out = "value"
                  /\ slot.cell.isSet
                  /\ ctxCall.val = slot.cell.val
             ELSE /\ slot.updates = ThreadRecycles
                  /\ ctxCall.out = IF ctxCall.default THEN "default"
                                   ELSE "LookupError"

\* after three recycles: slot s1 was set again and get returned its value,
\* slot s2 holds a value from before the last recycle and is level with the
\* recycle counter
C19_Witness ==
    /\ ctxCall.op = "get"
    /\ ctxCall.slot = "s1"
    /\ ctxCall.out = "value"
    /\ ThreadRecycles = 3
    /\ slots["s1"].updates = 4
    /\ slots["s2"].updates = 3
    /\ slots["s2"].cell.isSet

----------------------------------------------------------------------------
(* SpecFrame: Spec with a record of the state each call started from: the   *)
(* limiter it was made on, the store and the clock                          *)

\* use_local_value: the argument of a flush_cache call, FALSE for other calls
ObserveCall(p, use_local_value) ==
    prev' = [lim |-> limiter[p], redis |-> redis, now |-> now,
             local |-> use_local_value]

NextFrame ==
    \/ \E p \in SeqProcs, M \in Limits :
          Construct(p, M) /\ ObserveCall(p, FALSE)
          /\ UNCHANGED <<streakVars, concVars, genVars, ctxVars, newVars, override>>
    \/ \E p \in SeqProcs, b \in BOOLEAN :
          Flush(p, b) /\ ObserveCall(p, b)
          /\ UNCHANGED <<streakVars, concVars, genVars, ctxVars, newVars, override>>
    \/ \E p \in SeqProcs, r \in SuppliedIds \cup {NoId} :
          Enter(p, r) /\ ObserveCall(p, FALSE)
          /\ UNCHANGED <<streakVars, concVars, genVars, ctxVars, newVars, override>>
    \/ \E p \in SeqProcs, r \in AllIds :
          Exit(p, r) /\ ObserveCall(p, FALSE)
          /\ UNCHANGED <<streakVars, concVars, genVars, ctxVars, newVars, override>>
    \/ \E p \in SeqProcs, V \in Limits :
          OperatorSet(V) /\ ObserveCall(p, FALSE)
          /\ UNCHANGED <<streakVars, concVars, genVars, ctxVars, newVars, override>>
    \/ Tick /\ UNCHANGED <<streakVars, concVars, genVars, ctxVars, frameVars, newVars>>

SpecFrame == Init /\ [][NextFrame]_vars

\* the limiter the last call was made on, as it is now
Callee == limiter[lastCall.p]

\* the last call was made on a limiter that was enabled at that moment
OnEnabled(op) == lastCall.op = op /\ prev.lim.max > 0

\* the last call was made on a limiter that was disabled at that moment
OnDisabled(op) == lastCall.op = op /\ prev.lim.exists /\ prev.lim.max <= 0

\* timestamp string v is more than 10 minutes older than time t
OlderThanTenMinutes(t, v) == t - PyInt(v) > 10 * 60

\* the fields of hash h other than those in ks, with their values
Without(h, ks) == [k \in DOMAIN h \ ks |-> h[k]]

\* C11: on a disabled limiter (max_active_requests <= 0) enter returns the
\* unlimited sentinel id, and enter and flush_cache leave the store (limit
\* record, active-requests hash, expiries) and the limiter, its
\* last_recalculate_time included, as they were.
C11_DisabledFrame ==
    /\ OnDisabled("enter") =>
          /\ lastCall.res = "ok"
          /\ lastCall.ticket = UNLIMITED_REQUEST_ID
          /\ redis = prev.redis
          /\ Callee = prev.lim
    /\ OnDisabled("flush") =>
          /\ redis = prev.redis
          /\ Callee = prev.lim

\* enter on a disabled limiter while the store holds a positive limit and a
\* ticket, at a time when a flush would have been due
C11_Witness ==
    /\ OnDisabled("enter")
    /\ prev.lim.initialized
    /\ prev.now - prev.lim.last > 5 * 60
    /\ PyInt(redis.max) > 0
    /\ HLen(redis.active) > 0
    /\ lastCall.ticket = UNLIMITED_REQUEST_ID

\* C12: flush_cache on an enabled limiter removes from the hash exactly the
\* entries whose timestamp is more than 10 minutes older than the current
\* time; every other entry stays, with its timestamp.
C12_FlushReapsExactlyStale ==
    OnEnabled("flush") =>
        redis.active =
            Without(prev.redis.active,
                    {k \in DOMAIN prev.redis.active :
                        OlderThanTenMinutes(prev.now, prev.redis.active[k])})

\* entries 15 and 5 minutes old: the flush leaves only the younger one
C12_Witness ==
    /\ OnEnabled("flush")
    /\ HLen(prev.redis.active) = 2
    /\ HLen(redis.active) = 1
    /\ \E k \in DOMAIN prev.redis.active \ DOMAIN redis.active :
          prev.now - PyInt(prev.redis.active[k]) = 15 * 60
    /\ \E k \in DOMAIN redis.active : prev.now - PyInt(redis.active[k]) = 5 * 60

\* C14: flush_cache on an enabled limiter ends with the local
\* max_active_requests equal to the central record. With use_local_value set,
\* or no central record, the record is written with the local value, which
\* stays; otherwise the local value becomes the central one, which stays. The
\* flush that the first construction of an enabled limiter makes is one with
\* use_local_value set.
C14_FlushLocalEqualsCentral ==
    /\ OnEnabled("flush") =>
          LET wrote == prev.local \/ ~Exists(prev.redis.max)
          IN /\ redis.max = PyStr(Callee.max)
             /\ PyInt(redis.max) = Callee.max
             /\ wrote => Callee.max = prev.lim.max
             /\ ~wrote => redis.max = prev.redis.max
    /\ (lastCall.op = "init" /\ lastCall.arg > 0 /\ ~prev.lim.initialized) =>
          /\ Callee.max = lastCall.arg
          /\ PyInt(redis.max) = lastCall.arg

\* flush_cache() adopted a central value 2 over a local value 1
C14_Witness ==
    /\ OnEnabled("flush")
    /\ ~prev.local
    /\ prev.lim.max = 1
    /\ PyInt(prev.redis.max) = 2
    /\ Callee.max = 2
    /\ PyInt(redis.max) = 2

\* C16: exit(request_id) on an enabled limiter is not an error, removes only
\* the hash field request_id and leaves every other ticket, the limit record
\* and the limiter as they were; exit of an id that is not in the hash, and
\* exit of the unlimited sentinel, leave the whole store as it was; a second
\* exit of the same id changes nothing more.
C16_ExitRemovesOnlyItsTicket ==
    OnEnabled("exit") =>
        LET gone == IF lastCall.arg = UNLIMITED_REQUEST_ID THEN {}
                    ELSE {lastCall.arg}
        IN /\ lastCall.res = "ok"
           /\ redis.active = Without(prev.redis.active, gone)
           /\ redis.max = prev.redis.max
           /\ redis.maxTTL = prev.redis.maxTTL
           /\ Callee = prev.lim
           /\ gone \cap DOMAIN prev.redis.active = {} => redis = prev.redis
           /\ ExitCall(Callee, redis, lastCall.arg).st = redis

\* exit of one of two tickets: the other one stays
C16_Witness ==
    /\ OnEnabled("exit")
    /\ lastCall.arg \in DOMAIN prev.redis.active
    /\ HLen(prev.redis.active) = 2
    /\ HLen(redis.active) = 1
    /\ lastCall.arg \notin DOMAIN redis.active

\* C17: enter on an enabled limiter raises the quota error exactly when the
\* hash length read after the flush, if one was due, is at or above
\* max_active_requests; a refused enter returns no ticket and leaves the hash
\* as it was when its length was read.
C17_RefusedExactlyAtLimit ==
    OnEnabled("enter") =>
        LET f == EnterFlush(prev.lim, prev.redis, prev.now)
        IN /\ lastCall.res \in {"ok", "QuotaExceeded"}
           /\ lastCall.res = "QuotaExceeded" <=> HLen(f.st.active) >= f.lim.max
           /\ lastCall.res = "QuotaExceeded" =>
                 /\ redis.active = f.st.active
                 /\ lastCall.ticket = NoId
           /\ lastCall.res = "ok" =>
                 /\ lastCall.ticket \in DOMAIN redis.active
                 /\ lastCall.ticket # UNLIMITED_REQUEST_ID

\* an enter refused at limit 2 with two tickets held, after its own flush ran
C17_Witness ==
    /\ OnEnabled("enter")
    /\ lastCall.res = "QuotaExceeded"
    /\ Callee.max = 2
    /\ HLen(redis.active) = 2
    /\ Callee.last = prev.now
    /\ prev.lim.last < prev.now

\* C18: an enter on an enabled limiter made when more than 5 minutes have
\* passed since that limiter's last flush removes every ticket more than 10
\* minutes old before it reads the count: such a ticket is gone afterwards
\* (or registered anew by this very enter) and the admission decision counts
\* only the other tickets.
C18_DueEnterReapsLeakedTicket ==
    (OnEnabled("enter") /\ prev.now - prev.lim.last > 5 * 60) =>
        LET stale == {k \in DOMAIN prev.redis.active :
                         OlderThanTenMinutes(prev.now, prev.redis.active[k])}
            counted == DOMAIN prev.redis.active \ stale
        IN /\ \A k \in stale :
                 \/ k \notin DOMAIN redis.active
                 \/ k = lastCall.ticket /\ redis.active[k] = PyStr(prev.now)
           /\ lastCall.res = "QuotaExceeded" <=> Cardinality(counted) >= Callee.max

\* at limit 1 a leaked ticket filled the only slot; an enter with another id,
\* 10 minutes after the limiter's last flush, is admitted
C18_Witness ==
    /\ OnEnabled("enter")
    /\ prev.now - prev.lim.last = 10 * 60
    /\ Callee.max = 1
    /\ HLen(prev.redis.active) = 1
    /\ lastCall.res = "ok"
    /\ lastCall.ticket \notin DOMAIN prev.redis.active
    /\ DOMAIN redis.active = {lastCall.ticket}

\* C20: RateLimit(client_id, M) with M > 0 for a client_id whose limiter is
\* already initialized sets that limiter's local max_active_requests to M and
\* makes no store access: limit record, tickets, expiries and
\* last_recalculate_time stay; a flush_cache() made afterwards with the
\* central record present sets the local limit to the stored value.
C20_ReconstructSetsLocalOnly ==
    (lastCall.op = "init" /\ prev.lim.initialized /\ lastCall.arg > 0) =>
        /\ Callee = [prev.lim EXCEPT !.max = lastCall.arg]
        /\ redis = prev.redis
        /\ ~lastCall.contacted
        /\ Exists(redis.max) =>
              FlushCache(Callee, redis, now, FALSE).lim.max = PyInt(redis.max)

\* a limiter with limit 1 and a ticket held, constructed again with 2: the
\* central record still says 1
C20_Witness ==
    /\ lastCall.op = "init"
    /\ prev.lim.initialized
    /\ prev.lim.max = 1
    /\ lastCall.arg = 2
    /\ Callee.max = 2
    /\ PyInt(redis.max) = 1
    /\ HLen(redis.active) = 1

----------------------------------------------------------------------------
(* SpecOverride: the limiters of two processes on one store, an operator    *)
(* who overwrites the central limit record, and the first flush_cache call  *)
(* made after each such write                                               *)

\* which branch a flush_cache(use_local_value) call on limiter record l takes
FlushKind(l, use_local_value) ==
    IF Disabled(l.max) THEN "disabled"
    ELSE IF use_local_value THEN "local" ELSE "central"

\* process p ran flush_cache (ran) taking branch kind: if it is the first one
\* since the operator's write, note whether limiter and record now hold V
NoteFlush(p, ran, kind) ==
    override' =
        IF ran /\ override.state = "written"
        THEN [override EXCEPT
                 !.state = "flushed", !.kind = kind, !.by = p,
                 !.was = limiter[p].max,
                 !.adopted = /\ limiter'[p].max = override.val
                             /\ redis'.max = PyStr(override.val)]
        ELSE override

NoteWrite(V) == override' = [NoOverride EXCEPT !.state = "written", !.val = V]

NextOverride ==
    \/ \E p \in Procs, M \in Limits :
          /\ Construct(p, M)
          /\ NoteFlush(p, ~Disabled(M) /\ ~limiter[p].initialized, "local")
          /\ UNCHANGED <<streakVars, concVars, genVars, ctxVars, newVars, prev>>
    \/ \E p \in Procs :
          /\ Flush(p, FALSE)
          /\ NoteFlush(p, TRUE, FlushKind(limiter[p], FALSE))
          /\ UNCHANGED <<streakVars, concVars, genVars, ctxVars, newVars, prev>>
    \/ \E p \in Procs, r \in {1} :
          /\ Enter(p, r)
          /\ NoteFlush(p, ~Disabled(limiter[p].max) /\ FlushDue(now, limiter[p].last),
                       "central")
          /\ UNCHANGED <<streakVars, concVars, genVars, ctxVars, newVars, prev>>
    \/ \E V \in Limits :
          /\ OperatorSet(V)
          /\ NoteWrite(V)
          /\ UNCHANGED <<streakVars, concVars, genVars, ctxVars, newVars, prev>>
    \/ Tick /\ UNCHANGED <<streakVars, concVars, genVars, ctxVars, frameVars, newVars>>

SpecOverride == Init /\ [][NextOverride]_vars

\* C13 as stated: once an operator has written V to the central record, the
\* next flush_cache run by any process's limiter leaves that limiter's local
\* max_active_requests at V and the central record at V.
C13_AsStated == override.state = "flushed" => override.adopted

\* C13 amended: once an operator has written V to the central record, if the
\* next flush_cache call is made by an enabled limiter with use_local_value
\* unset (the periodic flush of enter, or flush_cache()), that limiter's local
\* max_active_requests becomes V and the central record stays V.
C13_CentralFlushAdopts ==
    (override.state = "flushed" /\ override.kind = "central") => override.adopted

\* the operator raised the limit from 1 to 2 and the periodic flush of an
\* enter in the second process adopted it
C13_Witness ==
    /\ override.state = "flushed"
    /\ override.kind = "central"
    /\ override.by = "p2"
    /\ override.was = 1
    /\ override.val = 2
    /\ override.adopted
    /\ lastCall.op = "enter"
    /\ limiter["p2"].max = 2

----------------------------------------------------------------------------
(* SpecNew: RateLimit.__new__ for one client_id, called by the threads of   *)
(* one process; a thread can be preempted between any two statements.       *)
(* Instances are numbered in the order they are created; 0 is "none".       *)

\* "if client_id not in cls._instance_dict"
NewCheck(t) ==
    /\ ctor.th[t].pc = "idle"
    /\ ctor.th[t].calls < MaxCalls
    /\ ctor' = [ctor EXCEPT !.th[t].pc = IF ctor.dict = 0 THEN "create" ELSE "return"]

\* "instance = super().__new__(cls)"
NewCreate(t) ==
    /\ ctor.th[t].pc = "create"
    /\ ctor' = [ctor EXCEPT !.made = @ + 1,
                            !.th[t].instance = ctor.made + 1,
                            !.th[t].pc = "store"]

\* "cls._instance_dict[client_id] = instance"
NewStore(t) ==
    /\ ctor.th[t].pc = "store"
    /\ ctor' = [ctor EXCEPT !.dict = ctor.th[t].instance,
                            !.th[t].pc = "return"]

\* "return cls._instance_dict[client_id]"
NewReturn(t) ==
    /\ ctor.th[t].pc = "return"
    /\ ctor' = [ctor EXCEPT !.th[t].ret = ctor.dict,
                            !.th[t].instance = 0,
                            !.th[t].calls = @ + 1,
                            !.th[t].pc = "idle"]

NextNew ==
    \/ \E t \in Threads : NewCheck(t)
          /\ UNCHANGED <<rlVars, streakVars, concVars, genVars, ctxVars, frameVars>>
    \/ \E t \in Threads : NewCreate(t)
          /\ UNCHANGED <<rlVars, streakVars, concVars, genVars, ctxVars, frameVars>>
    \/ \E t \in Threads : NewStore(t)
          /\ UNCHANGED <<rlVars, streakVars, concVars, genVars, ctxVars, frameVars>>
    \/ \E t \in Threads : NewReturn(t)
          /\ UNCHANGED <<rlVars, streakVars, concVars, genVars, ctxVars, frameVars>>

SpecNew == Init /\ [][NextNew]_vars

\* C15 as stated: within one process, however concurrent constructions for
\* one client_id interleave, every caller receives the same instance: no two
\* callers hold different limiter objects for the client_id.
C15_AsStated ==
    \A t, u \in Threads :
        (ctor.th[t].ret # 0 /\ ctor.th[u].ret # 0) => ctor.th[t].ret = ctor.th[u].ret

====
